---- MODULE Spec2Model ----
(***************************************************************************)
(* brids: CPF (11 digits) and CNPJ (14 digits) parsing, validation,        *)
(* formatting and random generation (src/src/cpf.rs, src/src/cnpj.rs).     *)
(*                                                                         *)
(* Every operation of the crate is a pure function.  A behaviour of this   *)
(* model is one call sequence of a client: Init draws the arguments of a   *)
(* constructor call, the constructor's action applies it, and a returned   *)
(* value can then be formatted (to_string), parsed back, or rebuilt from   *)
(* its leading digits.  Indices are 0-based as in the source; At(s, k)     *)
(* reads the k-th element.  A text is a sequence of one-character strings. *)
(* All sums stay below 2^16, so the u32 arithmetic of the source never     *)
(* wraps and plain integers model it exactly.                              *)
(***************************************************************************)
EXTENDS Integers, Sequences, FiniteSets

VARIABLES
    pc,        \* "call": a call is pending; "returned": it has returned a Result;
               \* "done": a call on a value has returned
    kind,      \* "Cpf" or "Cnpj": the type the calls are made on
    op,        \* the function the pending or last call names
    text,      \* the &str argument
    slice,     \* the &[u8] argument
    draws,     \* the values the random source hands to gen_range, in order
    readable,  \* Deserializer::is_human_readable()
    token,     \* what the deserializer hands the visitor: "Str" or "Bytes"
    res,       \* the Result of the last call: tag, and c, offset of InvalidCharacter
    numbers,   \* the local array `numbers` of the last call when it returned
    val,       \* the value an earlier call returned and this call was derived from
    origin,    \* the constructor that returned val
    shown,     \* the String a format!("{:?}", v) call returned
    branch     \* the u16 a branch() call returned

vars == <<pc, kind, op, text, slice, draws, readable, token, res, numbers, val, origin,
          shown, branch>>

----------------------------------------------------------------------------
(* Bounds of the input families *)

\* longest all-digit text enumerated exhaustively
MaxShort == 3
\* largest stride of the digit streams that serve as base digits
MaxStride == 1
\* number of characters inserted into a well-formed text
MaxSeps == 1
\* number of characters inserted into a canonical text
MaxExtra == 1
\* number of valid values whose texts are perturbed
MaxPerturbed == 1

----------------------------------------------------------------------------
(* Program constants *)

CpfLen == 11
CnpjLen == 14
CpfBase == 9
CnpjBase == 12
CnpjRoot == 8

----------------------------------------------------------------------------
(* Rust core library pieces the source is written with *)

Min(a, b) == IF a < b THEN a ELSE b

At(s, k) == s[k + 1]

\* [0; n]
Zeros(n) == [k \in 1..n |-> 0]

\* a..=b as a sequence
RangeInclusive(a, b) == [k \in 1..(IF b >= a THEN b - a + 1 ELSE 0) |-> a + k - 1]

\* Iterator::take
Take(s, n) == SubSeq(s, 1, Min(n, Len(s)))

\* Iterator::rev
Rev(s) == [k \in 1..Len(s) |-> s[Len(s) + 1 - k]]

\* Iterator::chain
Chain(s, t) == s \o t

\* Iterator::zip: stops with the shorter side
Zip(s, t) == [k \in 1..Min(Len(s), Len(t)) |-> <<s[k], t[k]>>]

\* .map(|(&x, y)| u32::from(x) * y as u32).sum::<u32>()
RECURSIVE SumProducts(_)
SumProducts(ps) ==
    IF ps = <<>> THEN 0
    ELSE ps[1][1] * ps[1][2] + SumProducts(Tail(ps))

\* numbers.iter().all(|&x| x == first_number)
AllEqual(s, first) == \A k \in 1..Len(s) : s[k] = first

DigitChars == <<"0", "1", "2", "3", "4", "5", "6", "7", "8", "9">>

\* the pattern '0'..='9'
IsDigitChar(c) == \E d \in 0..9 : At(DigitChars, d) = c

\* c.to_digit(10).unwrap() as u8
ToDigit(c) == CHOOSE d \in 0..9 : At(DigitChars, d) = c

\* write!(f, "{}", number) of a u8 below 10
DigitToChar(n) == At(DigitChars, n)

----------------------------------------------------------------------------
(* Results *)

NoChar == ""

Ok == [tag |-> "Ok", c |-> NoChar, offset |-> 0]
Empty == [tag |-> "Empty", c |-> NoChar, offset |-> 0]
InvalidNumber == [tag |-> "InvalidNumber", c |-> NoChar, offset |-> 0]
InvalidCharacter(c, offset) == [tag |-> "InvalidCharacter", c |-> c, offset |-> offset]
Pending == [tag |-> "Pending", c |-> NoChar, offset |-> 0]

\* what a function hands back: its Result and its local array at that point
Return(r, n) == [res |-> r, numbers |-> n]

----------------------------------------------------------------------------
(* rand 0.6 *)

\* Rng::gen_range(low, high): a value of the half-open range [low, high),
\* here the one the raw output `raw` of the source selects
GenRange(low, high, raw) == low + (raw % (high - low))

----------------------------------------------------------------------------
(* Cpf::from_slice *)

\* for (y, x) in numbers.iter_mut().zip(slice.iter()): returns at the first x > 9
\* the copy with the bound on an element one too high
RECURSIVE CpfCopySliceAboveTen(_, _, _)
CpfCopySliceAboveTen(nums, sl, k) ==
    IF k >= Min(Len(nums), Len(sl)) THEN Return(Ok, nums)
    ELSE IF At(sl, k) > 10 THEN Return(InvalidNumber, nums)
    ELSE CpfCopySliceAboveTen([nums EXCEPT ![k + 1] = At(sl, k)], sl, k + 1)

RECURSIVE CpfCopySlice(_, _, _)
CpfCopySlice(nums, sl, k) ==
    IF k >= Min(Len(nums), Len(sl)) THEN Return(Ok, nums)
    ELSE IF At(sl, k) > 9 THEN Return(InvalidNumber, nums)
    ELSE CpfCopySlice([nums EXCEPT ![k + 1] = At(sl, k)], sl, k + 1)

\* the weighted sum of pass i, times 10, modulo 11; 10 and 11 become 0
CpfFromSliceRemainder(nums, i) ==
    LET remainder == (SumProducts(Zip(Take(nums, 9 + i), Rev(RangeInclusive(2, 10 + i)))) * 10) % 11
    IN  IF remainder \in {10, 11} THEN 0 ELSE remainder

\* for i in 0..=1: fills the check digit of a short slice, verifies it otherwise
RECURSIVE CpfFromSliceChecks(_, _, _)
CpfFromSliceChecks(nums, len, i) ==
    IF i > 1 THEN Return(Ok, nums)
    ELSE LET check_digit == At(nums, 9 + i)
             remainder == CpfFromSliceRemainder(nums, i)
         IN  IF len < 11
             THEN CpfFromSliceChecks([nums EXCEPT ![9 + i + 1] = remainder], len, i + 1)
             ELSE IF remainder # check_digit
                  THEN Return(InvalidNumber, nums)
                  ELSE CpfFromSliceChecks(nums, len, i + 1)

\* the array after the match on slice.len()
CpfFromSliceStart(len) == Zeros(11)

CpfFromSlice(sl) ==
    IF Len(sl) = 0 THEN Return(Empty, Zeros(11))
    ELSE IF Len(sl) \notin {9, 11} THEN Return(InvalidNumber, Zeros(11))
    ELSE LET copied == CpfCopySlice(CpfFromSliceStart(Len(sl)), sl, 0)
         IN  IF copied.res # Ok THEN copied
             ELSE IF Len(sl) = 11 /\ AllEqual(copied.numbers, At(copied.numbers, 0))
                  THEN Return(InvalidNumber, copied.numbers)
                  ELSE CpfFromSliceChecks(copied.numbers, Len(sl), 0)

\* TryFrom<&[u8]> for Cpf
CpfTryFrom(sl) == CpfFromSlice(sl)

----------------------------------------------------------------------------
(* FromStr for Cpf *)

\* the match on (c, offset) of the scan loop, from `offset` to the end of s
\* the scan with only the dash accepted before the check digits of a dot-less text
RECURSIVE CpfScanDashOnly(_, _, _, _, _)
CpfScanDashOnly(s, offset, nums, i, has_dot) ==
    IF offset >= Len(s) THEN Return(Ok, nums)
    ELSE LET c == At(s, offset) IN
        IF IsDigitChar(c)
        THEN IF i < 11
             THEN CpfScanDashOnly(s, offset + 1, [nums EXCEPT ![i + 1] = ToDigit(c)], i + 1, has_dot)
             ELSE Return(InvalidNumber, nums)
        ELSE IF c = "." /\ offset \in {3, 7} THEN CpfScanDashOnly(s, offset + 1, nums, i, TRUE)
        ELSE IF c \in {"-", "/"} /\ offset = 11 /\ has_dot
             THEN CpfScanDashOnly(s, offset + 1, nums, i, has_dot)
        ELSE IF c = "-" /\ offset = 9 /\ ~has_dot
             THEN CpfScanDashOnly(s, offset + 1, nums, i, has_dot)
        ELSE Return(InvalidCharacter(c, offset), nums)

RECURSIVE CpfScan(_, _, _, _, _)
CpfScan(s, offset, nums, i, has_dot) ==
    IF offset >= Len(s) THEN Return(Ok, nums)
    ELSE LET c == At(s, offset) IN
        IF IsDigitChar(c)
        THEN IF i < 11
             THEN CpfScan(s, offset + 1, [nums EXCEPT ![i + 1] = ToDigit(c)], i + 1, has_dot)
             ELSE Return(InvalidNumber, nums)
        ELSE IF c = "." /\ offset \in {3, 7} THEN CpfScan(s, offset + 1, nums, i, TRUE)
        ELSE IF c \in {"-", "/"} /\ offset = 11 /\ has_dot
             THEN CpfScan(s, offset + 1, nums, i, has_dot)
        ELSE IF c \in {"-", "/"} /\ offset = 9 /\ ~has_dot
             THEN CpfScan(s, offset + 1, nums, i, has_dot)
        ELSE Return(InvalidCharacter(c, offset), nums)

CpfFromStrRemainder(nums, i) ==
    LET remainder == (SumProducts(Zip(Take(nums, 9 + i), Rev(RangeInclusive(2, 10 + i)))) * 10) % 11
    IN  IF remainder \in {10, 11} THEN 0 ELSE remainder

\* the comparison made for the first check digit only
CpfFromStrChecksFirstOnly(nums, i) ==
    IF CpfFromStrRemainder(nums, 0) # At(nums, 9)
    THEN Return(InvalidNumber, nums)
    ELSE Return(Ok, nums)

\* for i in 0..=1: compares each computed check digit with the one scanned
RECURSIVE CpfFromStrChecks(_, _)
CpfFromStrChecks(nums, i) ==
    IF i > 1 THEN Return(Ok, nums)
    ELSE LET check_digit == At(nums, 9 + i)
             remainder == CpfFromStrRemainder(nums, i)
         IN  IF remainder # check_digit
             THEN Return(InvalidNumber, nums)
             ELSE CpfFromStrChecks(nums, i + 1)

\* the parse without the rejection of repeated digits
CpfFromStrNoRepeatCheck(s) ==
    IF Len(s) = 0 THEN Return(Empty, Zeros(11))
    ELSE LET scanned == CpfScan(s, 0, Zeros(11), 0, FALSE)
         IN  IF scanned.res # Ok THEN scanned
             ELSE CpfFromStrChecks(scanned.numbers, 0)

CpfFromStr(s) ==
    IF Len(s) = 0 THEN Return(Empty, Zeros(11))
    ELSE LET scanned == CpfScan(s, 0, Zeros(11), 0, FALSE)
         IN  IF scanned.res # Ok THEN scanned
             ELSE IF AllEqual(scanned.numbers, At(scanned.numbers, 0))
                  THEN Return(InvalidNumber, scanned.numbers)
                  ELSE CpfFromStrChecks(scanned.numbers, 0)

----------------------------------------------------------------------------
(* Display for Cpf *)

\* the test for a multiple of 3 made first: a dot, not the dash, before digit 9
CpfDisplaySepDotFirst(i) ==
    IF i % 3 = 0 /\ i # 0 THEN <<".">>
    ELSE IF i % 9 = 0 /\ i # 0 THEN <<"-">>
    ELSE <<>>

\* the separator written before digit i
CpfDisplaySep(i) ==
    IF i % 9 = 0 /\ i # 0 THEN <<"-">>
    ELSE IF i % 3 = 0 /\ i # 0 THEN <<".">>
    ELSE <<>>

\* for (i, number) in self.0.iter().enumerate(), from digit i on
RECURSIVE CpfDisplayFrom(_, _)
CpfDisplayFrom(v, i) ==
    IF i >= Len(v) THEN <<>>
    ELSE CpfDisplaySep(i) \o <<DigitToChar(At(v, i))>> \o CpfDisplayFrom(v, i + 1)

CpfDisplay(v) == CpfDisplayFrom(v, 0)

\* ToString::to_string, by Display
CpfToString(v) == CpfDisplay(v)

\* Debug for Cpf: write!(f, "Cpf(\"{}\")", self)
CpfDebug(v) == <<"C", "p", "f", "(", "\"">> \o CpfDisplay(v) \o <<"\"", ")">>

----------------------------------------------------------------------------
(* Distribution<Cpf> for Standard *)

\* for number in numbers.iter_mut().take(9): *number = rng.gen_range(0, 9)
CpfSampleBase(raw) ==
    [k \in 1..11 |-> IF k <= Min(9, Len(raw)) THEN GenRange(0, 9, raw[k]) ELSE 0]

\* the weights not reversed: 2, 3, ..., 10 + i
CpfSampleRemainderAscending(nums, i) ==
    LET remainder == (SumProducts(Zip(Take(nums, 9 + i), RangeInclusive(2, 10 + i))) * 10) % 11
    IN  IF remainder \in {10, 11} THEN 0 ELSE remainder

CpfSampleRemainder(nums, i) ==
    LET remainder == (SumProducts(Zip(Take(nums, 9 + i), Rev(RangeInclusive(2, 10 + i)))) * 10) % 11
    IN  IF remainder \in {10, 11} THEN 0 ELSE remainder

\* for i in 0..=1: numbers[9 + i] = remainder
RECURSIVE CpfSampleChecks(_, _)
CpfSampleChecks(nums, i) ==
    IF i > 1 THEN nums
    ELSE CpfSampleChecks([nums EXCEPT ![9 + i + 1] = CpfSampleRemainder(nums, i)], i + 1)

CpfSample(raw) == Return(Ok, CpfSampleChecks(CpfSampleBase(raw), 0))

----------------------------------------------------------------------------
(* Deserialize for Cpf *)

\* CpfStringVisitor: visit_str parses, visit_bytes goes through try_from
CpfStringVisitor(tok, s, sl) == IF tok = "Str" THEN CpfFromStr(s) ELSE CpfTryFrom(sl)

\* CpfBytesVisitor: visit_bytes goes through try_from
CpfBytesVisitor(sl) == CpfTryFrom(sl)

CpfDeserialize(human, tok, s, sl) ==
    IF human THEN CpfStringVisitor(tok, s, sl) ELSE CpfBytesVisitor(sl)

----------------------------------------------------------------------------
(* Cnpj::from_slice *)

\* for (y, x) in numbers.iter_mut().zip(slice.iter()): returns at the first x > 9
RECURSIVE CnpjCopySlice(_, _, _)
CnpjCopySlice(nums, sl, k) ==
    IF k >= Min(Len(nums), Len(sl)) THEN Return(Ok, nums)
    ELSE IF At(sl, k) > 9 THEN Return(InvalidNumber, nums)
    ELSE CnpjCopySlice([nums EXCEPT ![k + 1] = At(sl, k)], sl, k + 1)

\* the weighted sum of pass i, times 10, modulo 11; 10 and 11 become 0
\* the weights taken as one run 13 + i, ..., 3, 2 instead of wrapping after 9
CnpjFromSliceRemainderNoWrap(nums, i) ==
    LET remainder == (SumProducts(Zip(Take(nums, 12 + i), Rev(RangeInclusive(2, 13 + i)))) * 10) % 11
    IN  IF remainder \in {10, 11} THEN 0 ELSE remainder

CnpjFromSliceRemainder(nums, i) ==
    LET remainder == (SumProducts(Zip(Take(nums, 12 + i), Rev(Chain(RangeInclusive(2, 9), RangeInclusive(2, 5 + i))))) * 10) % 11
    IN  IF remainder \in {10, 11} THEN 0 ELSE remainder

\* for i in 0..=1: fills the check digit of a short slice, verifies it otherwise
RECURSIVE CnpjFromSliceChecks(_, _, _)
CnpjFromSliceChecks(nums, len, i) ==
    IF i > 1 THEN Return(Ok, nums)
    ELSE LET check_digit == At(nums, 12 + i)
             remainder == CnpjFromSliceRemainder(nums, i)
         IN  IF len < 14
             THEN CnpjFromSliceChecks([nums EXCEPT ![12 + i + 1] = remainder], len, i + 1)
             ELSE IF remainder # check_digit
                  THEN Return(InvalidNumber, nums)
                  ELSE CnpjFromSliceChecks(nums, len, i + 1)

\* the branch of an 8-digit slice left at 0000
CnpjFromSliceStartNoBranch(len) == Zeros(14)

\* the array after the match on slice.len()
CnpjFromSliceStart(len) == IF len = 8 THEN [Zeros(14) EXCEPT ![11 + 1] = 1] ELSE Zeros(14)

CnpjFromSlice(sl) ==
    IF Len(sl) = 0 THEN Return(Empty, Zeros(14))
    ELSE IF Len(sl) \notin {8, 12, 14} THEN Return(InvalidNumber, Zeros(14))
    ELSE LET copied == CnpjCopySlice(CnpjFromSliceStart(Len(sl)), sl, 0)
         IN  IF copied.res # Ok THEN copied
             ELSE IF Len(sl) = 14 /\ AllEqual(copied.numbers, At(copied.numbers, 0))
                  THEN Return(InvalidNumber, copied.numbers)
                  ELSE CnpjFromSliceChecks(copied.numbers, Len(sl), 0)

\* TryFrom<&[u8]> for Cnpj
CnpjTryFrom(sl) == CnpjFromSlice(sl)

----------------------------------------------------------------------------
(* FromStr for Cnpj *)

\* the match on (c, offset) of the scan loop, from `offset` to the end of s
\* the scan reporting the count of digits read in place of the character offset
RECURSIVE CnpjScanDigitIndex(_, _, _, _, _)
CnpjScanDigitIndex(s, offset, nums, i, has_dot) ==
    IF offset >= Len(s) THEN Return(Ok, nums)
    ELSE LET c == At(s, offset) IN
        IF IsDigitChar(c)
        THEN IF i < 14
             THEN CnpjScanDigitIndex(s, offset + 1, [nums EXCEPT ![i + 1] = ToDigit(c)], i + 1, has_dot)
             ELSE Return(InvalidNumber, nums)
        ELSE IF c = "." /\ offset \in {2, 6} THEN CnpjScanDigitIndex(s, offset + 1, nums, i, TRUE)
        ELSE IF c = "/" /\ offset = 10 /\ has_dot
             THEN CnpjScanDigitIndex(s, offset + 1, nums, i, has_dot)
        ELSE IF c = "/" /\ offset = 8 /\ ~has_dot
             THEN CnpjScanDigitIndex(s, offset + 1, nums, i, has_dot)
        ELSE IF c = "-" /\ offset = 15 /\ has_dot
             THEN CnpjScanDigitIndex(s, offset + 1, nums, i, has_dot)
        ELSE IF c = "-" /\ offset = 13 /\ ~has_dot
             THEN CnpjScanDigitIndex(s, offset + 1, nums, i, has_dot)
        ELSE Return(InvalidCharacter(c, i), nums)

RECURSIVE CnpjScan(_, _, _, _, _)
CnpjScan(s, offset, nums, i, has_dot) ==
    IF offset >= Len(s) THEN Return(Ok, nums)
    ELSE LET c == At(s, offset) IN
        IF IsDigitChar(c)
        THEN IF i < 14
             THEN CnpjScan(s, offset + 1, [nums EXCEPT ![i + 1] = ToDigit(c)], i + 1, has_dot)
             ELSE Return(InvalidNumber, nums)
        ELSE IF c = "." /\ offset \in {2, 6} THEN CnpjScan(s, offset + 1, nums, i, TRUE)
        ELSE IF c = "/" /\ offset = 10 /\ has_dot
             THEN CnpjScan(s, offset + 1, nums, i, has_dot)
        ELSE IF c = "/" /\ offset = 8 /\ ~has_dot
             THEN CnpjScan(s, offset + 1, nums, i, has_dot)
        ELSE IF c = "-" /\ offset = 15 /\ has_dot
             THEN CnpjScan(s, offset + 1, nums, i, has_dot)
        ELSE IF c = "-" /\ offset = 13 /\ ~has_dot
             THEN CnpjScan(s, offset + 1, nums, i, has_dot)
        ELSE Return(InvalidCharacter(c, offset), nums)

\* the weights of the parse running 2..=13 + i in one stretch
CnpjFromStrRemainderNoWrap(nums, i) ==
    LET remainder == (SumProducts(Zip(Take(nums, 12 + i), Rev(RangeInclusive(2, 13 + i)))) * 10) % 11
    IN  IF remainder \in {10, 11} THEN 0 ELSE remainder

CnpjFromStrRemainder(nums, i) ==
    LET remainder == (SumProducts(Zip(Take(nums, 12 + i), Rev(Chain(RangeInclusive(2, 9), RangeInclusive(2, 5 + i))))) * 10) % 11
    IN  IF remainder \in {10, 11} THEN 0 ELSE remainder

\* for i in 0..=1: compares each computed check digit with the one scanned
RECURSIVE CnpjFromStrChecks(_, _)
CnpjFromStrChecks(nums, i) ==
    IF i > 1 THEN Return(Ok, nums)
    ELSE LET check_digit == At(nums, 12 + i)
             remainder == CnpjFromStrRemainder(nums, i)
         IN  IF remainder # check_digit
             THEN Return(InvalidNumber, nums)
             ELSE CnpjFromStrChecks(nums, i + 1)

CnpjFromStr(s) ==
    IF Len(s) = 0 THEN Return(Empty, Zeros(14))
    ELSE LET scanned == CnpjScan(s, 0, Zeros(14), 0, FALSE)
         IN  IF scanned.res # Ok THEN scanned
             ELSE IF AllEqual(scanned.numbers, At(scanned.numbers, 0))
                  THEN Return(InvalidNumber, scanned.numbers)
                  ELSE CnpjFromStrChecks(scanned.numbers, 0)

----------------------------------------------------------------------------
(* Display for Cnpj *)

\* the dot written before every third digit, the bound i < 6 forgotten
CnpjDisplaySepEveryThird(i) ==
    IF i % 10 = 0 /\ i # 0 THEN <<"-">>
    ELSE IF i % 6 = 0 /\ i # 0 THEN <<"/">>
    ELSE IF i % 3 = 0 /\ i # 0 THEN <<".">>
    ELSE <<>>

\* the separator written before the i-th digit after the first two
CnpjDisplaySep(i) ==
    IF i % 10 = 0 /\ i # 0 THEN <<"-">>
    ELSE IF i % 6 = 0 /\ i # 0 THEN <<"/">>
    ELSE IF i % 3 = 0 /\ i # 0 /\ i < 6 THEN <<".">>
    ELSE <<>>

\* for (i, number) in self.0.iter().skip(2).enumerate(), from index i on
RECURSIVE CnpjDisplayFrom(_, _)
CnpjDisplayFrom(v, i) ==
    IF i + 2 >= Len(v) THEN <<>>
    ELSE CnpjDisplaySep(i) \o <<DigitToChar(At(v, i + 2))>> \o CnpjDisplayFrom(v, i + 1)

\* write!(f, "{}{}.", self.0[0], self.0[1]) and the loop
CnpjDisplay(v) ==
    <<DigitToChar(At(v, 0)), DigitToChar(At(v, 1)), ".">> \o CnpjDisplayFrom(v, 0)

\* ToString::to_string, by Display
CnpjToString(v) == CnpjDisplay(v)

\* Debug for Cnpj: write!(f, "Cnpj(\"{}\")", self)
CnpjDebug(v) == <<"C", "n", "p", "j", "(", "\"">> \o CnpjDisplay(v) \o <<"\"", ")">>

----------------------------------------------------------------------------
(* Distribution<Cnpj> for Standard *)

\* for number in numbers.iter_mut().take(8): *number = rng.gen_range(0, 9)
CnpjSampleBase(raw) ==
    [k \in 1..14 |-> IF k <= Min(8, Len(raw)) THEN GenRange(0, 9, raw[k]) ELSE 0]

CnpjSampleRemainder(nums, i) ==
    LET remainder == (SumProducts(Zip(Take(nums, 12 + i), Rev(Chain(RangeInclusive(2, 9), RangeInclusive(2, 5 + i))))) * 10) % 11
    IN  IF remainder \in {10, 11} THEN 0 ELSE remainder

\* for i in 0..=1: numbers[12 + i] = remainder
RECURSIVE CnpjSampleChecks(_, _)
CnpjSampleChecks(nums, i) ==
    IF i > 1 THEN nums
    ELSE CnpjSampleChecks([nums EXCEPT ![12 + i + 1] = CnpjSampleRemainder(nums, i)], i + 1)

CnpjSample(raw) == Return(Ok, CnpjSampleChecks([CnpjSampleBase(raw) EXCEPT ![11 + 1] = 1], 0))

----------------------------------------------------------------------------
(* Deserialize for Cnpj *)

\* CnpjStringVisitor: visit_str parses, visit_bytes goes through try_from
CnpjStringVisitor(tok, s, sl) == IF tok = "Str" THEN CnpjFromStr(s) ELSE CnpjTryFrom(sl)

\* CnpjBytesVisitor: visit_bytes goes through try_from
CnpjBytesVisitor(sl) == CnpjTryFrom(sl)

CnpjDeserialize(human, tok, s, sl) ==
    IF human THEN CnpjStringVisitor(tok, s, sl) ELSE CnpjBytesVisitor(sl)

\* 10u16.pow(i), for the exponents 0..3 the loop uses (no u16 overflow)
RECURSIVE Pow10(_)
Pow10(i) == IF i = 0 THEN 1 ELSE 10 * Pow10(i - 1)

\* self.0[8..=11].iter().rev().enumerate().map(|(i, &x)| u16::from(x) * 10u16.pow(i)):
\* the sum of the products, before it is held in a u16
CnpjBranchSum(v) ==
    SumProducts(Zip(Rev(SubSeq(v, 8 + 1, 11 + 1)), [i \in 1..4 |-> Pow10(i - 1)]))

\* the digits taken without rev(): the first digit of the branch weighs least
CnpjBranchNotReversed(v) ==
    SumProducts(Zip(SubSeq(v, 8 + 1, 11 + 1), [i \in 1..4 |-> Pow10(i - 1)])) % 65536

\* Cnpj::branch: .sum::<u16>()
CnpjBranch(v) == CnpjBranchSum(v) % 65536

----------------------------------------------------------------------------
(* The check digits as the Receita Federal procedure states them: explicit *)
(* weight tables, most significant digit first.  Used to draw valid inputs *)
(* and as the reference the code is compared with.                         *)

RefWeights(k, i) ==
    IF k = "Cpf"
    THEN IF i = 0 THEN <<10, 9, 8, 7, 6, 5, 4, 3, 2>>
                  ELSE <<11, 10, 9, 8, 7, 6, 5, 4, 3, 2>>
    ELSE IF i = 0 THEN <<5, 4, 3, 2, 9, 8, 7, 6, 5, 4, 3, 2>>
                  ELSE <<6, 5, 4, 3, 2, 9, 8, 7, 6, 5, 4, 3, 2>>

RECURSIVE RefWeightedSum(_, _, _)
RefWeightedSum(d, w, p) ==
    IF p > Len(w) THEN 0 ELSE d[p] * w[p] + RefWeightedSum(d, w, p + 1)

RefCheckDigit(k, d, i) ==
    LET r == (RefWeightedSum(d, RefWeights(k, i), 1) * 10) % 11
    IN  IF r = 10 THEN 0 ELSE r

RefComplete(k, base) ==
    LET one == base \o <<RefCheckDigit(k, base, 0)>>
    IN  one \o <<RefCheckDigit(k, one, 1)>>

LenOf(k) == IF k = "Cpf" THEN CpfLen ELSE CnpjLen
BaseOf(k) == IF k = "Cpf" THEN CpfBase ELSE CnpjBase

IsDigits(d) == \A p \in 1..Len(d) : d[p] \in 0..9
AllIdentical(d) == \A p \in 1..Len(d) : d[p] = d[1]

\* N digits, not all identical, the last two the check digits of the others
RefValid(k, d) ==
    /\ Len(d) = LenOf(k)
    /\ IsDigits(d)
    /\ ~AllIdentical(d)
    /\ d[BaseOf(k) + 1] = RefCheckDigit(k, d, 0)
    /\ d[BaseOf(k) + 2] = RefCheckDigit(k, d, 1)

----------------------------------------------------------------------------
(* Input families *)

Kinds == {"Cpf", "Cnpj"}

\* a, a+b, a+2b, ... modulo 10
DigitStream(a, b, n) == [p \in 1..n |-> (a + b * (p - 1)) % 10]

Streams(n) == {DigitStream(a, b, n) : a \in 0..9, b \in 0..MaxStride}

\* raw outputs of a random source
RawStreams(n) == {[p \in 1..n |-> a + b * (p - 1)] : a \in 0..9, b \in 0..MaxStride}

Branches == {<<0, 0, 0, 1>>, <<0, 0, 2, 7>>, <<9, 9, 9, 9>>}

Bases(k) ==
    IF k = "Cpf" THEN Streams(CpfBase)
    ELSE Streams(CnpjBase) \cup {r \o br : r \in Streams(CnpjRoot), br \in Branches}

ValidValues(k) == {RefComplete(k, b) : b \in Bases(k)}

\* base digits followed by every pair of final digits
Candidates(k) == {b \o <<c1, c2>> : b \in Bases(k), c1 \in 0..9, c2 \in 0..9}

BadBytes == {10, 255}

\* an all-digit slice with one element replaced by a byte above 9
Poisoned(k) ==
    UNION {{[d EXCEPT ![p] = x] : p \in 1..Len(d), x \in BadBytes} :
              d \in {DigitStream(1, 1, n) : n \in {CnpjRoot, BaseOf(k), LenOf(k)}}}

ToText(d) == [p \in 1..Len(d) |-> DigitChars[d[p] + 1]]

InsertAt(t, at, c) == SubSeq(t, 1, at) \o <<c>> \o SubSeq(t, at + 1, Len(t))

\* the places where the canonical text has a separator: <<digits before it, separator>>
CanonicalSeps(k) ==
    IF k = "Cpf" THEN {<<3, ".">>, <<6, ".">>, <<9, "-">>}
    ELSE {<<2, ".">>, <<5, ".">>, <<8, "/">>, <<12, "-">>}

\* the separators of the dot-less variants
DotlessSeps(k) ==
    IF k = "Cpf" THEN {{<<9, "-">>}, {<<9, "/">>}}
    ELSE {{<<8, "/">>, <<12, "-">>}}

\* the digits of d from the p-th on, each separator of `seps` put before the digit it names
RECURSIVE Punctuate(_, _, _)
Punctuate(d, seps, p) ==
    IF p > Len(d) THEN <<>>
    ELSE (IF \E x \in seps : x[1] = p - 1
          THEN <<(CHOOSE x \in seps : x[1] = p - 1)[2]>>
          ELSE <<>>)
         \o <<DigitChars[d[p] + 1]>> \o Punctuate(d, seps, p + 1)

Canonical(k, d) == Punctuate(d, CanonicalSeps(k), 1)

Dotless(k, d) == {Punctuate(d, seps, 1) : seps \in DotlessSeps(k)}

\* the unpunctuated run, the canonical text, the dot-less variants, and the
\* canonical text with some of its separators left out
Layouts(k, d) ==
    {ToText(d)} \cup Dotless(k, d) \cup {Punctuate(d, seps, 1) : seps \in SUBSET CanonicalSeps(k)}

InsertChars == {".", "-", "/", " ", "0"}

RECURSIVE Inserted(_, _)
Inserted(ts, n) ==
    IF n = 0 THEN ts
    ELSE LET prev == Inserted(ts, n - 1)
         IN  prev \cup UNION {{InsertAt(t, at, c) : at \in 0..Len(t), c \in InsertChars} : t \in prev}

Prefixes(t) == {SubSeq(t, 1, n) : n \in 1..Len(t)}

\* the valid values whose texts are perturbed
PerturbedValues(k) ==
    {RefComplete(k, b) :
        b \in {IF k = "Cpf" THEN DigitStream(a, 1, CpfBase)
               ELSE DigitStream(a, 1, CnpjRoot) \o <<0, 0, 0, 1>> : a \in 1..MaxPerturbed}}

\* those values, and each with its last digit raised by one: a failing checksum
PerturbedDigits(k) ==
    PerturbedValues(k) \cup {[v EXCEPT ![Len(v)] = (v[Len(v)] + 1) % 10] : v \in PerturbedValues(k)}

\* t with one character replaced by one of InsertChars
Substituted(t) == {[t EXCEPT ![p] = c] : p \in 1..Len(t), c \in InsertChars}

\* the canonical text of d with every dot replaced by c
DotsReplaced(k, d, c) ==
    Punctuate(d, {<<x[1], IF x[2] = "." THEN c ELSE x[2]>> : x \in CanonicalSeps(k)}, 1)

\* N copies of the digit d
Repeated(k, d) == [p \in 1..LenOf(k) |-> d]

DigitCharSet == {DigitChars[d] : d \in 1..10}

----------------------------------------------------------------------------
(* The state machine *)

\* the &str arguments of from_str
TextArg(k) ==
    \/ text = <<>>
    \/ \E n \in 1..MaxShort : text \in [1..n -> DigitCharSet]
    \/ \E d \in Candidates(k) : text = ToText(d)
    \/ \E v \in ValidValues(k) : text \in Layouts(k, v)
    \/ \E v \in ValidValues(k) : \E d \in 0..9 :
          text = Canonical(k, [v EXCEPT ![LenOf(k)] = d])
    \/ \E d \in 0..9 : text \in {ToText(Repeated(k, d)), Canonical(k, Repeated(k, d))}
    \/ \E v \in PerturbedDigits(k) :
          \/ text \in Inserted({ToText(v)}, MaxSeps)
          \/ text \in Inserted({Canonical(k, v)}, MaxExtra)
          \/ text \in Prefixes(ToText(v))
          \/ text \in Prefixes(Canonical(k, v))
          \/ text \in Substituted(Canonical(k, v))
          \/ \E c \in InsertChars \ DigitCharSet : text = DotsReplaced(k, v, c)

\* the &[u8] arguments of from_slice
SliceArg(k) ==
    \/ \E n \in 0..(LenOf(k) + 1) : slice \in Streams(n)
    \/ slice \in Candidates(k)
    \/ slice \in Poisoned(k)

Init ==
    /\ pc = "call"
    /\ res = Pending
    /\ numbers = <<>>
    /\ val = <<>>
    /\ origin = "none"
    /\ shown = <<>>
    /\ branch = 0
    /\ kind \in Kinds
    /\ \/ /\ op = "from_str"
          /\ TextArg(kind)
          /\ slice = <<>> /\ draws = <<>> /\ readable = FALSE /\ token = "None"
       \/ /\ op = "from_slice"
          /\ SliceArg(kind)
          /\ text = <<>> /\ draws = <<>> /\ readable = FALSE /\ token = "None"
       \/ /\ op = "sample"
          /\ draws \in RawStreams(IF kind = "Cpf" THEN CpfBase ELSE CnpjRoot)
          /\ text = <<>> /\ slice = <<>> /\ readable = FALSE /\ token = "None"
       \/ /\ op = "deserialize"
          /\ token = "Str"
          /\ readable = TRUE
          /\ \E v \in ValidValues(kind) : text \in Layouts(kind, v)
          /\ slice = <<>> /\ draws = <<>>
       \/ /\ op = "deserialize"
          /\ token = "Bytes"
          /\ readable \in BOOLEAN
          /\ \/ \E n \in 0..(LenOf(kind) + 1) : slice \in Streams(n)
             \/ slice \in ValidValues(kind)
          /\ text = <<>> /\ draws = <<>>

\* a value a constructor returned, not yet used for a second call
Fresh(k) ==
    /\ pc = "returned"
    /\ kind = k
    /\ res = Ok
    /\ origin = "none"

\* Cpf::from_str(text) returns
CpfFromStrCall ==
    /\ pc = "call"
    /\ kind = "Cpf"
    /\ op = "from_str"
    /\ LET r == CpfFromStr(text)
       IN  /\ res' = r.res
           /\ numbers' = r.numbers
    /\ pc' = "returned"
    /\ UNCHANGED <<kind, op, text, slice, draws, readable, token, val, origin, shown, branch>>

\* Cpf::from_slice(slice) returns
CpfFromSliceCall ==
    /\ pc = "call"
    /\ kind = "Cpf"
    /\ op = "from_slice"
    /\ LET r == CpfFromSlice(slice)
       IN  /\ res' = r.res
           /\ numbers' = r.numbers
    /\ pc' = "returned"
    /\ UNCHANGED <<kind, op, text, slice, draws, readable, token, val, origin, shown, branch>>

\* rng.gen::<Cpf>() returns, the source having produced `draws`
CpfSampleCall ==
    /\ pc = "call"
    /\ kind = "Cpf"
    /\ op = "sample"
    /\ LET r == CpfSample(draws)
       IN  /\ res' = r.res
           /\ numbers' = r.numbers
    /\ pc' = "returned"
    /\ UNCHANGED <<kind, op, text, slice, draws, readable, token, val, origin, shown, branch>>

\* Cpf::deserialize returns
CpfDeserializeCall ==
    /\ pc = "call"
    /\ kind = "Cpf"
    /\ op = "deserialize"
    /\ LET r == CpfDeserialize(readable, token, text, slice)
       IN  /\ res' = r.res
           /\ numbers' = r.numbers
    /\ pc' = "returned"
    /\ UNCHANGED <<kind, op, text, slice, draws, readable, token, val, origin, shown, branch>>

\* v.to_string().parse::<Cpf>(): the text of a returned value becomes the
\* argument of a from_str call
CpfToStringCall ==
    /\ Fresh("Cpf")
    /\ pc' = "call"
    /\ op' = "from_str"
    /\ text' = CpfToString(numbers)
    /\ val' = numbers
    /\ origin' = op
    /\ res' = Pending
    /\ UNCHANGED <<kind, slice, draws, readable, token, numbers, shown, branch>>

\* Cpf::from_slice(&v.as_bytes()[..9]): the leading digits of a returned value
\* become the argument of a from_slice call
CpfAsBytesCall ==
    /\ Fresh("Cpf")
    /\ pc' = "call"
    /\ op' = "from_slice"
    /\ slice' = Take(numbers, CpfBase)
    /\ val' = numbers
    /\ origin' = op
    /\ res' = Pending
    /\ UNCHANGED <<kind, text, draws, readable, token, numbers, shown, branch>>

\* Cnpj::from_str(text) returns
CnpjFromStrCall ==
    /\ pc = "call"
    /\ kind = "Cnpj"
    /\ op = "from_str"
    /\ LET r == CnpjFromStr(text)
       IN  /\ res' = r.res
           /\ numbers' = r.numbers
    /\ pc' = "returned"
    /\ UNCHANGED <<kind, op, text, slice, draws, readable, token, val, origin, shown, branch>>

\* Cnpj::from_slice(slice) returns
CnpjFromSliceCall ==
    /\ pc = "call"
    /\ kind = "Cnpj"
    /\ op = "from_slice"
    /\ LET r == CnpjFromSlice(slice)
       IN  /\ res' = r.res
           /\ numbers' = r.numbers
    /\ pc' = "returned"
    /\ UNCHANGED <<kind, op, text, slice, draws, readable, token, val, origin, shown, branch>>

\* rng.gen::<Cnpj>() returns, the source having produced `draws`
CnpjSampleCall ==
    /\ pc = "call"
    /\ kind = "Cnpj"
    /\ op = "sample"
    /\ LET r == CnpjSample(draws)
       IN  /\ res' = r.res
           /\ numbers' = r.numbers
    /\ pc' = "returned"
    /\ UNCHANGED <<kind, op, text, slice, draws, readable, token, val, origin, shown, branch>>

\* Cnpj::deserialize returns
CnpjDeserializeCall ==
    /\ pc = "call"
    /\ kind = "Cnpj"
    /\ op = "deserialize"
    /\ LET r == CnpjDeserialize(readable, token, text, slice)
       IN  /\ res' = r.res
           /\ numbers' = r.numbers
    /\ pc' = "returned"
    /\ UNCHANGED <<kind, op, text, slice, draws, readable, token, val, origin, shown, branch>>

\* v.to_string().parse::<Cnpj>(): the text of a returned value becomes the
\* argument of a from_str call
CnpjToStringCall ==
    /\ Fresh("Cnpj")
    /\ pc' = "call"
    /\ op' = "from_str"
    /\ text' = CnpjToString(numbers)
    /\ val' = numbers
    /\ origin' = op
    /\ res' = Pending
    /\ UNCHANGED <<kind, slice, draws, readable, token, numbers, shown, branch>>

\* Cnpj::from_slice(&v.as_bytes()[..n]) for n = 12 or 8: the leading digits of a
\* returned value become the argument of a from_slice call
CnpjAsBytesCall ==
    /\ Fresh("Cnpj")
    /\ pc' = "call"
    /\ op' = "from_slice"
    /\ \E n \in {CnpjBase, CnpjRoot} : slice' = Take(numbers, n)
    /\ val' = numbers
    /\ origin' = op
    /\ res' = Pending
    /\ UNCHANGED <<kind, text, draws, readable, token, numbers, shown, branch>>

\* format!("{:?}", v) of a returned Cpf
CpfDebugCall ==
    /\ Fresh("Cpf")
    /\ pc' = "done"
    /\ op' = "debug"
    /\ shown' = CpfDebug(numbers)
    /\ val' = numbers
    /\ origin' = op
    /\ UNCHANGED <<kind, text, slice, draws, readable, token, res, numbers, branch>>

\* format!("{:?}", v) of a returned Cnpj
CnpjDebugCall ==
    /\ Fresh("Cnpj")
    /\ pc' = "done"
    /\ op' = "debug"
    /\ shown' = CnpjDebug(numbers)
    /\ val' = numbers
    /\ origin' = op
    /\ UNCHANGED <<kind, text, slice, draws, readable, token, res, numbers, branch>>

\* v.branch() of a returned Cnpj
CnpjBranchCall ==
    /\ Fresh("Cnpj")
    /\ pc' = "done"
    /\ op' = "branch"
    /\ branch' = CnpjBranch(numbers)
    /\ val' = numbers
    /\ origin' = op
    /\ UNCHANGED <<kind, text, slice, draws, readable, token, res, numbers, shown>>

Next ==
    \/ CpfFromStrCall
    \/ CpfFromSliceCall
    \/ CpfSampleCall
    \/ CpfDeserializeCall
    \/ CpfToStringCall
    \/ CpfAsBytesCall
    \/ CnpjFromStrCall
    \/ CnpjFromSliceCall
    \/ CnpjSampleCall
    \/ CnpjDeserializeCall
    \/ CnpjToStringCall
    \/ CnpjAsBytesCall
    \/ CpfDebugCall
    \/ CnpjDebugCall
    \/ CnpjBranchCall

Spec == Init /\ [][Next]_vars

----------------------------------------------------------------------------
(* Vocabulary of the properties *)

\* a constructor has returned a value
ValueReturned == pc = "returned" /\ res = Ok

\* the text of the value val was parsed back
Reparsed == pc = "returned" /\ op = "from_str" /\ origin # "none"

\* the leading Len(slice) digits of the value val were handed to from_slice
Rebuilt == pc = "returned" /\ op = "from_slice" /\ origin # "none"

SeparatorChars == {".", "-", "/"}

\* the number of decimal digits among the first n characters of t
RECURSIVE DigitsBefore(_, _)
DigitsBefore(t, n) ==
    IF n = 0 THEN 0
    ELSE DigitsBefore(t, n - 1) + (IF t[n] \in DigitCharSet THEN 1 ELSE 0)

DigitCount(t) == DigitsBefore(t, Len(t))

\* every separator of t stands immediately before the digit index the grouping gives it
SeparatorsAtBoundaries(k, t) ==
    \A p \in 1..Len(t) :
        t[p] \in SeparatorChars =>
            LET j == DigitsBefore(t, p - 1)
            IN  IF k = "Cpf"
                THEN \/ t[p] = "." /\ j \in {3, 6}
                     \/ t[p] \in {"-", "/"} /\ j = 9
                ELSE \/ t[p] = "." /\ j \in {2, 5}
                     \/ t[p] = "/" /\ j = 8
                     \/ t[p] = "-" /\ j = 12

\* the canonical text, the unpunctuated run and the dot-less variants of the digits d
AcceptedForms(k, d) ==
    {ToText(d), Canonical(k, d)} \cup Dotless(k, d)
    \cup (IF k = "Cpf" THEN {Punctuate(d, {<<3, ".">>, <<6, ".">>, <<9, "/">>}, 1)} ELSE {})

BaseDigits(k) == IF k = "Cpf" THEN CpfBase ELSE CnpjRoot

SampleOf(k, raw) == IF k = "Cpf" THEN CpfSample(raw).numbers ELSE CnpjSample(raw).numbers

CpfTestVector == <<1, 2, 3, 4, 5, 6, 7, 8, 9, 0, 9>>
CnpjTestVector == <<1, 2, 3, 4, 5, 6, 7, 8, 0, 0, 0, 1, 9, 5>>
CnpjBranchVector == <<1, 2, 3, 4, 5, 6, 7, 8, 0, 0, 2, 7, 2, 4>>

----------------------------------------------------------------------------
(* Properties *)

\* C1: no value a constructor returns (from_str, from_slice of any accepted
\* length, sample, of either kind) has all of its digits identical.
C1_NeverAllIdentical ==
    ValueReturned => ~AllIdentical(numbers)

\* C2: every value a constructor returns holds exactly N digits, each in 0..9,
\* and its last two digits are the check digits the weighted modulo-11
\* procedure gives for the digits before them.
C2_DigitsAndCheckDigits ==
    ValueReturned =>
        /\ Len(numbers) = LenOf(kind)
        /\ IsDigits(numbers)
        /\ numbers[BaseOf(kind) + 1] = RefCheckDigit(kind, numbers, 0)
        /\ numbers[BaseOf(kind) + 2] = RefCheckDigit(kind, numbers, 1)

C2_Witness ==
    /\ ValueReturned
    /\ kind = "Cnpj"
    /\ op = "from_slice"
    /\ slice = <<1, 2, 3, 4, 5, 6, 7, 8, 0, 0, 2, 7>>
    /\ numbers = CnpjBranchVector

\* C3: a text in which the scan collects fewer than N digits and meets no
\* illegal character is rejected by from_str with InvalidNumber.
C3_FewerDigitsRejected ==
    (/\ pc = "returned"
     /\ op = "from_str"
     /\ text # <<>>
     /\ res.tag # "InvalidCharacter"
     /\ DigitCount(text) < LenOf(kind))
    => res = InvalidNumber

\* C4: the canonical text of every value sample returns parses, and parses to
\* a value equal to it.
C4_SampleRoundTrip ==
    (Reparsed /\ origin = "sample") => (res = Ok /\ numbers = val)

\* C5: whenever from_str succeeds, every separator of the text stands at a
\* canonical grouping boundary, and the text is the canonical form, the
\* unpunctuated run of N digits or the dot-less variant of the value.  Stated
\* for the texts that hold N digits; the shorter ones are the case of C3.
C5_SeparatorsCanonical ==
    (ValueReturned /\ op = "from_str" /\ DigitCount(text) = LenOf(kind)) =>
        /\ SeparatorsAtBoundaries(kind, text)
        /\ text \in AcceptedForms(kind, numbers)

\* C6: for every valid value v (N digits, not all identical, correct check
\* digits), parsing the text the formatter gives for v succeeds and returns v.
C6_RoundTrip ==
    (Reparsed /\ RefValid(kind, val)) => (res = Ok /\ numbers = val)

C6_Witness ==
    /\ Reparsed
    /\ kind = "Cnpj"
    /\ val = CnpjTestVector
    /\ text = <<"1", "2", ".", "3", "4", "5", ".", "6", "7", "8", "/",
                "0", "0", "0", "1", "-", "9", "5">>
    /\ res = Ok
    /\ numbers = val

\* C7: decoding a byte sequence whose length is not N never yields a value,
\* in the human-readable and in the compact decoder.
C7_DecodeOnlyFullLength ==
    (/\ pc = "returned"
     /\ op = "deserialize"
     /\ token = "Bytes"
     /\ Len(slice) # LenOf(kind))
    => res # Ok

\* C8: sample draws every base digit from 0..9: no output has a base digit
\* outside 0..9, and for every base position and every digit d in 0..9 some
\* output of sample has d at that position.
C8_SampleFullRange ==
    (ValueReturned /\ op = "sample") =>
        /\ \A p \in 1..BaseDigits(kind) : numbers[p] \in 0..9
        /\ \A p \in 1..BaseDigits(kind) : \A d \in 0..9 :
              \E raw \in RawStreams(BaseDigits(kind)) : SampleOf(kind, raw)[p] = d

\* C9: from_slice on the first N-2 digits of a valid value returns that value;
\* from_slice on the first 8 digits of a valid Cnpj whose branch is 0001
\* returns that value; and from_slice on any slice of N-2 digits (or of 8, for
\* Cnpj) succeeds with the slice as the leading digits of the result.
C9_Reconstruction ==
    /\ (Rebuilt /\ RefValid(kind, val) /\ Len(slice) = BaseOf(kind))
           => (res = Ok /\ numbers = val)
    /\ (Rebuilt /\ RefValid(kind, val) /\ kind = "Cnpj" /\ Len(slice) = CnpjRoot
               /\ SubSeq(val, 9, 12) = <<0, 0, 0, 1>>)
           => (res = Ok /\ numbers = val)
    /\ (/\ pc = "returned"
        /\ op = "from_slice"
        /\ IsDigits(slice)
        /\ \/ Len(slice) = BaseOf(kind)
           \/ kind = "Cnpj" /\ Len(slice) = CnpjRoot)
           => (res = Ok /\ SubSeq(numbers, 1, Len(slice)) = slice)

C9_Witness ==
    /\ Rebuilt
    /\ kind = "Cnpj"
    /\ val = CnpjTestVector
    /\ slice = <<1, 2, 3, 4, 5, 6, 7, 8>>
    /\ res = Ok
    /\ numbers = val

\* C10: for every array of N digits, the check digit each of from_str,
\* from_slice and sample computes in pass i (i = 0, 1) is the one of the
\* reference procedure (explicit weights, sum times 10 modulo 11, 10 giving 0),
\* and it lies in 0..9.
C10_CheckDigitIsReference ==
    (pc = "returned" /\ Len(numbers) = LenOf(kind) /\ IsDigits(numbers)) =>
        \A i \in 0..1 :
            LET ref == RefCheckDigit(kind, numbers, i)
            IN  /\ ref \in 0..9
                /\ IF kind = "Cpf"
                   THEN /\ CpfFromStrRemainder(numbers, i) = ref
                        /\ CpfFromSliceRemainder(numbers, i) = ref
                        /\ CpfSampleRemainder(numbers, i) = ref
                   ELSE /\ CnpjFromStrRemainder(numbers, i) = ref
                        /\ CnpjFromSliceRemainder(numbers, i) = ref
                        /\ CnpjSampleRemainder(numbers, i) = ref

\* the weighted sum of pass 0 gives remainder 10, which becomes check digit 0
C10_Witness ==
    /\ pc = "returned"
    /\ kind = "Cpf"
    /\ numbers = CpfTestVector
    /\ (RefWeightedSum(numbers, RefWeights("Cpf", 0), 1) * 10) % 11 = 10
    /\ CpfSampleRemainder(numbers, 0) = 0
    /\ CpfSampleRemainder(numbers, 1) = 9

\* the characters of the type's name
TypeName(k) == IF k = "Cpf" THEN <<"C", "p", "f">> ELSE <<"C", "n", "p", "j">>

\* the final text of each kind, written out digit by digit
CanonicalText(k, d) ==
    IF k = "Cpf"
    THEN <<DigitChars[d[1] + 1], DigitChars[d[2] + 1], DigitChars[d[3] + 1], ".",
           DigitChars[d[4] + 1], DigitChars[d[5] + 1], DigitChars[d[6] + 1], ".",
           DigitChars[d[7] + 1], DigitChars[d[8] + 1], DigitChars[d[9] + 1], "-",
           DigitChars[d[10] + 1], DigitChars[d[11] + 1]>>
    ELSE <<DigitChars[d[1] + 1], DigitChars[d[2] + 1], ".",
           DigitChars[d[3] + 1], DigitChars[d[4] + 1], DigitChars[d[5] + 1], ".",
           DigitChars[d[6] + 1], DigitChars[d[7] + 1], DigitChars[d[8] + 1], "/",
           DigitChars[d[9] + 1], DigitChars[d[10] + 1], DigitChars[d[11] + 1],
           DigitChars[d[12] + 1], "-", DigitChars[d[13] + 1], DigitChars[d[14] + 1]>>

\* to_string of the value val has produced the argument text
Formatted == pc = "call" /\ op = "from_str" /\ origin # "none"

\* C11: the formatter gives every value the one canonical text, whatever its
\* digits: d0d1d2.d3d4d5.d6d7d8-d9d10 (14 characters) for Cpf and
\* d0d1.d2d3d4.d5d6d7/d8d9d10d11-d12d13 (18 characters) for Cnpj; the debug
\* rendering is the type name, then the canonical text in quotes and parentheses.
C11_CanonicalFormat ==
    /\ Formatted =>
          /\ text = CanonicalText(kind, val)
          /\ Len(text) = (IF kind = "Cpf" THEN 14 ELSE 18)
    /\ (pc = "done" /\ op = "debug") =>
          shown = TypeName(kind) \o <<"(", "\"">> \o CanonicalText(kind, val) \o <<"\"", ")">>

C11_Witness ==
    /\ Formatted
    /\ kind = "Cpf"
    /\ val = CpfTestVector
    /\ text = <<"1", "2", "3", ".", "4", "5", "6", ".", "7", "8", "9", "-", "0", "9">>

\* the digits of a text, in order, as numbers
DigitValue(c) == CHOOSE d \in 0..9 : DigitChars[d + 1] = c

DigitsOf(t) ==
    LET ds == SelectSeq(t, LAMBDA c : c \in DigitCharSet)
    IN  [p \in 1..Len(ds) |-> DigitValue(ds[p])]

\* the three accepted writings of the digits d: unpunctuated, canonical, dot-less
Writings(k, d) == {ToText(d), CanonicalText(k, d)} \cup Dotless(k, d)

\* from_str has returned on one of the accepted writings of a valid number
ParsedWriting ==
    /\ pc = "returned"
    /\ op = "from_str"
    /\ Len(DigitsOf(text)) = LenOf(kind)
    /\ RefValid(kind, DigitsOf(text))
    /\ text \in Writings(kind, DigitsOf(text))

\* C12: the canonical text of a valid value, its unpunctuated text and its
\* dot-less variant (Cpf: 9 digits, '/' or '-', 2 digits; Cnpj: 8 digits, '/',
\* 4 digits, '-', 2 digits) all parse, and to the same value: the one whose
\* digits are the digits of the text.
C12_WritingsParseEqual ==
    ParsedWriting => (res = Ok /\ numbers = DigitsOf(text))

C12_Witness ==
    /\ ParsedWriting
    /\ kind = "Cpf"
    /\ text = <<"1", "2", "3", "4", "5", "6", "7", "8", "9", "/", "0", "9">>
    /\ numbers = CpfTestVector

\* from_str has returned on a canonical text that differs from the canonical
\* text of a valid value in its final digit only
LastDigitReplaced ==
    /\ pc = "returned"
    /\ op = "from_str"
    /\ Len(DigitsOf(text)) = LenOf(kind)
    /\ text = CanonicalText(kind, DigitsOf(text))
    /\ \E x \in 0..9 :
          /\ x # DigitsOf(text)[LenOf(kind)]
          /\ RefValid(kind, [DigitsOf(text) EXCEPT ![LenOf(kind)] = x])

\* C13: the canonical text of a valid value with only its final digit replaced
\* by any other digit is rejected by from_str with InvalidNumber.
C13_ChecksumSensitive ==
    LastDigitReplaced => res = InvalidNumber

C13_Witness ==
    /\ LastDigitReplaced
    /\ kind = "Cpf"
    /\ text = <<"1", "2", "3", ".", "4", "5", "6", ".", "7", "8", "9", "-", "0", "0">>
    /\ res = InvalidNumber

\* from_str has returned on the text of N copies of one digit
RepeatedText ==
    /\ pc = "returned"
    /\ op = "from_str"
    /\ \E d \in 0..9 : text \in {ToText(Repeated(kind, d)), CanonicalText(kind, Repeated(kind, d))}

\* from_slice has returned on the slice of N copies of one digit
RepeatedSlice ==
    /\ pc = "returned"
    /\ op = "from_slice"
    /\ \E d \in 0..9 : slice = Repeated(kind, d)

\* C14: N copies of one digit are rejected with InvalidNumber, by from_str as
\* unpunctuated and as canonical text and by from_slice as a slice, also when
\* the sequence satisfies the checksum (as every repeated Cpf sequence does).
C14_RepeatedRejected ==
    (RepeatedText \/ RepeatedSlice) => res = InvalidNumber

C14_Witness ==
    /\ RepeatedText
    /\ kind = "Cpf"
    /\ text = <<"1", "1", "1", ".", "1", "1", "1", ".", "1", "1", "1", "-", "1", "1">>
    /\ DigitsOf(text)[10] = RefCheckDigit(kind, DigitsOf(text), 0)
    /\ DigitsOf(text)[11] = RefCheckDigit(kind, DigitsOf(text), 1)
    /\ res = InvalidNumber

\* the slice lengths from_slice accepts
AcceptedLengths(k) == IF k = "Cpf" THEN {11, 9} ELSE {14, 12, 8}

\* from_slice has returned
Sliced == pc = "returned" /\ op = "from_slice"

\* C15: from_slice gives Empty for the slice of length 0 and for no other;
\* InvalidNumber for a length that is not N or N-2 (Cnpj: or 8); InvalidNumber
\* for a slice of accepted length with an element above 9; for a slice of
\* length N it succeeds exactly when the digits are not all identical and both
\* check digits match; it never gives InvalidCharacter.
C15_FromSliceClassifies ==
    Sliced =>
        /\ (Len(slice) = 0) <=> (res = Empty)
        /\ (Len(slice) # 0 /\ Len(slice) \notin AcceptedLengths(kind)) => res = InvalidNumber
        /\ (Len(slice) \in AcceptedLengths(kind) /\ ~IsDigits(slice)) => res = InvalidNumber
        /\ (Len(slice) = LenOf(kind)) => ((res = Ok) <=> RefValid(kind, slice))
        /\ res \in {Ok, Empty, InvalidNumber}

C15_Witness ==
    /\ Sliced
    /\ kind = "Cnpj"
    /\ Len(slice) = 12
    /\ slice[12] = 255
    /\ res = InvalidNumber

\* branch has returned for the value val
BranchRead == pc = "done" /\ op = "branch"

\* val came from the reconstruction of an 8-digit slice or from sample
RootOnly == origin = "sample" \/ (origin = "from_slice" /\ Len(slice) = 8)

\* C16: branch returns 1000*d8 + 100*d9 + 10*d10 + d11 of the stored digits, a
\* number in 0..9999 that the 16-bit sum holds without wrapping, and 1 for
\* every value from_slice rebuilt from 8 digits or sample produced.
C16_Branch ==
    BranchRead =>
        /\ branch = 1000 * val[9] + 100 * val[10] + 10 * val[11] + val[12]
        /\ branch \in 0..9999
        /\ CnpjBranchSum(val) < 65536
        /\ RootOnly => branch = 1

C16_Witness ==
    /\ BranchRead
    /\ val = CnpjBranchVector
    /\ branch = 27

\* the offsets at which a dot is legal
DotOffsets(k) == IF k = "Cpf" THEN {3, 7} ELSE {2, 6}

\* the dot flag when the character at position p (from 1) of t is read
DotSeen(k, t, p) == \E q \in 1..(p - 1) : t[q] = "." /\ (q - 1) \in DotOffsets(k)

\* the separator c is legal at the offset for the dot flag
LegalSep(k, c, offset, dot) ==
    IF c = "." THEN offset \in DotOffsets(k)
    ELSE IF k = "Cpf"
         THEN c \in {"-", "/"} /\ offset = (IF dot THEN 11 ELSE 9)
         ELSE \/ c = "/" /\ offset = (IF dot THEN 10 ELSE 8)
              \/ c = "-" /\ offset = (IF dot THEN 15 ELSE 13)

\* the character at position p of t is a violation: a digit beyond the N-th,
\* or a character that is neither a digit nor a legal separator
Offends(k, t, p) ==
    IF t[p] \in DigitCharSet
    THEN DigitsBefore(t, p - 1) >= LenOf(k)
    ELSE ~LegalSep(k, t[p], p - 1, DotSeen(k, t, p))

HasOffence(k, t) == \E p \in 1..Len(t) : Offends(k, t, p)

FirstOffence(k, t) ==
    CHOOSE p \in 1..Len(t) : Offends(k, t, p) /\ \A q \in 1..(p - 1) : ~Offends(k, t, q)

\* from_str has returned
Parsed == pc = "returned" /\ op = "from_str"

\* C17: from_str reports the first violation of the scan from the left: Empty
\* for the empty text and for no other; InvalidCharacter(c, k) when the first
\* violation is the character c at offset k that is neither a digit nor a
\* separator legal there for the dot flag, whatever the checksum of the
\* digits; InvalidNumber when the first violation is an (N+1)-th digit.  The
\* repeated-digit and checksum checks decide only when the scan met no
\* violation: then the result is Ok or InvalidNumber, and for a text of N
\* digits it is Ok exactly for a valid number.
C17_FirstViolation ==
    Parsed =>
        /\ (Len(text) = 0) <=> (res = Empty)
        /\ HasOffence(kind, text) =>
              LET p == FirstOffence(kind, text)
              IN  IF text[p] \in DigitCharSet
                  THEN res = InvalidNumber
                  ELSE res = InvalidCharacter(text[p], p - 1)
        /\ (Len(text) # 0 /\ ~HasOffence(kind, text)) =>
              /\ res \in {Ok, InvalidNumber}
              /\ (DigitCount(text) = LenOf(kind)) =>
                    ((res = Ok) <=> RefValid(kind, DigitsOf(text)))

C17_Witness ==
    /\ Parsed
    /\ kind = "Cnpj"
    /\ text = <<"1", "2", "-", "3", "4", "5", "-", "6", "7", "8", "/",
                "0", "0", "0", "1", "-", "9", "5">>
    /\ RefValid(kind, DigitsOf(text))
    /\ FirstOffence(kind, text) = 3
    /\ res = InvalidCharacter("-", 2)

\* what from_str and from_slice of the kind k return
FromStrOf(k, t) == IF k = "Cpf" THEN CpfFromStr(t) ELSE CnpjFromStr(t)
FromSliceOf(k, sl) == IF k = "Cpf" THEN CpfFromSlice(sl) ELSE CnpjFromSlice(sl)

\* the two results agree: both Ok with equal values, or both InvalidNumber
Agree(r1, n1, r2, n2) ==
    \/ r1 = Ok /\ r2 = Ok /\ n1 = n2
    \/ r1 = InvalidNumber /\ r2 = InvalidNumber

\* from_slice has returned on N digits
SlicedDigits == Sliced /\ Len(slice) = LenOf(kind) /\ IsDigits(slice)

\* from_str has returned on the unpunctuated text of N digits
ParsedDigits == Parsed /\ Len(text) = LenOf(kind) /\ text = ToText(DigitsOf(text))

\* C18: on every sequence of N digits, from_slice of the sequence and from_str
\* of its unpunctuated text both succeed with equal values or both fail with
\* InvalidNumber.
C18_PathsAgree ==
    /\ SlicedDigits =>
          LET other == FromStrOf(kind, ToText(slice))
          IN  Agree(res, numbers, other.res, other.numbers)
    /\ ParsedDigits =>
          LET other == FromSliceOf(kind, DigitsOf(text))
          IN  Agree(other.res, other.numbers, res, numbers)

C18_Witness ==
    /\ SlicedDigits
    /\ kind = "Cnpj"
    /\ slice = CnpjTestVector
    /\ res = Ok
    /\ FromStrOf(kind, ToText(slice)).numbers = numbers

====
